---------------------------- MODULE Spec2Model ----------------------------
(***************************************************************************)
(* fraction/extract_raw_yields.py: projection of a 4-axis sparse histogram *)
(* into per-pT mass histograms (project) and the cut-variation fits (fit), *)
(* driven by one configuration and the --project / --fit / --fix_mean      *)
(* flags.                                                                  *)
(*                                                                         *)
(* Numbers are fixed-point: pT edges, scores and masses are in thousandths *)
(* (1.0 GeV/c = 1000, score 0.02 = 20), products with 1.001 / 0.999 are in *)
(* millionths.                                                             *)
(*                                                                         *)
(* The fitter, the histograms and hData are the libraries' (flarefly,      *)
(* ROOT): they are modelled by what the calls made here do to them.  The   *)
(* plots (--plot_npcut, savefig) and the starting values handed to the     *)
(* fitter change nothing that is modelled and are left out.                *)
(***************************************************************************)
EXTENDS Integers, Sequences, FiniteSets, TLC

VARIABLES cfg, args, pc, ipt, icut, axis, outfile, created, fits, fitter,
          pars_tofix, hist_nocut, hist_rawyield_cutvar, written, mass

vars == <<cfg, args, pc, ipt, icut, axis, outfile, created, fits, fitter,
          pars_tofix, hist_nocut, hist_rawyield_cutvar, written, mass>>

----------------------------------------------------------------------------
(* Bounds of the model.                                                    *)

\* longest pt_mins list of a configuration
MaxBins == 2
\* longest bdt_cuts.nonprompt list of a configuration
MaxCuts == 2
\* most perform_fit calls of one run: len(pt_mins) * (1 + len(nonprompt))
MaxFits == 6
\* value sets a converged fit may return
MaxSeed == 2
\* bins of the pT axis (axis 1) of hData, 1 GeV/c wide
PtAxisBins == 3
\* bins of the score axes (axes 2 and 3) of hData, over [0, 1]
ScoreAxisBins == 2

(* Fixed-point scale: thousandths. *)
Unit == 10 * 10 * 10

----------------------------------------------------------------------------
(* Small helpers.                                                          *)

Min(a, b) == IF a <= b THEN a ELSE b
Max(a, b) == IF a >= b THEN a ELSE b

Range(s) == {s[i] : i \in 1..Len(s)}

\* a list of n copies of x:  [x]*n
Repeat(x, n) == [i \in 1..n |-> x]

\* the lists of length len over S
SeqsOfLen(S, len) == [1..len -> S]

----------------------------------------------------------------------------
(* The configuration (the parsed YAML) and the command line.               *)

\* cfg["hadron"] values; the last one is any unsupported species
Hadrons == {"dstar", "dplus"}
AnyHadron == Hadrons \cup {"lc"}

\* cfg["fit"]["sgn_funcs"] entries: the tailed family and an untailed one
SgnFuncs == {"doublecb", "gaussian"}

\* cfg["fit"]["bkg_funcs"], mass_mins, mass_maxs of bin i (values as such
\* play no part in the control flow; bin i's entries are told apart by i)
BkgFuncOf(i) == "expopow"
MassMinOf(i) == 139 + i
MassMaxOf(i) == 155 + i

\* pT bins (lower, upper edge) a configuration may list
PtBins == {<<1000, 2000>>, <<2000, 3000>>, <<1000, 3000>>}

\* non-prompt score thresholds a configuration may list
NpCuts == {200, 996, 998}

\* background score cuts a configuration may give
BkgCuts == {500, 1000}

Config(hadron, pt_mins, pt_maxs, mass_mins, mass_maxs, sgn_funcs, bkg_funcs, bkg_is_list, bkg_scalar, bkg_list, nonprompt) ==
    [hadron |-> hadron, pt_mins |-> pt_mins, pt_maxs |-> pt_maxs,
     mass_mins |-> mass_mins, mass_maxs |-> mass_maxs,
     sgn_funcs |-> sgn_funcs, bkg_funcs |-> bkg_funcs,
     bkg_is_list |-> bkg_is_list, bkg_scalar |-> bkg_scalar,
     bkg_list |-> bkg_list, nonprompt |-> nonprompt]

\* check_config_consistency returns (TRUE) or calls sys.exit() (FALSE)
check_config_consistency(c) ==
    LET n == Len(c.pt_mins)
    IN  /\ Len(c.pt_maxs) = n
        /\ Len(c.mass_mins) + Len(c.mass_maxs) + Len(c.sgn_funcs)
              + Len(c.bkg_funcs) = 4 * n
        /\ ~(c.bkg_is_list /\ Len(c.bkg_list) # n)

\* zip(pt_mins, pt_maxs) stops at the shorter list
NZip(c) == Min(Len(c.pt_mins), Len(c.pt_maxs))

----------------------------------------------------------------------------
(* hData, the 4-axis THnSparse (mass, pT, background score, non-prompt     *)
(* score), and the TAxis calls project() makes on it.                      *)

\* an axis' range state: ROOT's kAxisRange bit, fFirst, fLast
FreshAxis == [bit |-> FALSE, first |-> 0, last |-> 0]

\* number of bins of axis a (1: pT, 2: background score, 3: non-prompt score)
NBins(a) == IF a = 1 THEN PtAxisBins ELSE ScoreAxisBins

\* upper edge of axis a in millionths (the lower edge is 0)
XMax(a) == IF a = 1 THEN PtAxisBins * Unit * Unit ELSE Unit * Unit

\* TAxis::FindBin(x), x in millionths: underflow 0, overflow nbins+1
FindBin(a, x) ==
    IF x < 0 THEN 0
    ELSE IF x >= XMax(a) THEN NBins(a) + 1
    ELSE 1 + (NBins(a) * x) \div XMax(a)

\* TAxis::SetRange(first, last) on an axis of nbins bins
SetRange(nbins, first, last) ==
    IF \/ last < first
       \/ (first < 0 /\ last < 0)
       \/ (first > nbins + 1 /\ last > nbins + 1)
       \/ (first = 0 /\ last = 0)
    THEN [bit |-> FALSE, first |-> 1, last |-> nbins]
    ELSE [bit |-> TRUE, first |-> Max(first, 0), last |-> Min(last, nbins + 1)]

\* bins of axis a that a projection sums over, given its range state
Selected(a, ax) ==
    IF ax.bit THEN {b \in 0..(NBins(a) + 1) : ax.first <= b /\ b <= ax.last}
    ELSE 0..(NBins(a) + 1)

\* sparse.Projection(0): the mass histogram summed over the selected cells,
\* identified by the cells it sums (their pT, background, non-prompt bins)
Projection(ax) ==
    [pt |-> Selected(1, ax[1]), bkg |-> Selected(2, ax[2]),
     np |-> Selected(3, ax[3])]

\* sparse.GetAxis(2).SetRange(1, FindBin(cut*0.999))
SetBkgRange(ax, cut) ==
    [ax EXCEPT ![2] = SetRange(NBins(2), 1, FindBin(2, cut * 999))]

\* sparse.GetAxis(1).SetRange(FindBin(pt_min*1.001), FindBin(pt_max*0.999))
SetPtRange(ax, pt_min, pt_max) ==
    [ax EXCEPT ![1] = SetRange(NBins(1), FindBin(1, pt_min * 1001),
                               FindBin(1, pt_max * 999))]

\* sparse.GetAxis(3).SetRange(FindBin(bdt_np_min*1.001), GetNbins()+1)
SetNpRange(ax, bdt_np_min) ==
    [ax EXCEPT ![3] = SetRange(NBins(3), FindBin(3, bdt_np_min * 1001),
                               NBins(3) + 1)]

\* the same with the reset of line 305 left out
ResetNpRangeOmitted(ax) == ax

\* sparse.GetAxis(3).SetRange(-1, -1)
ResetNpRange(ax) == [ax EXCEPT ![3] = SetRange(NBins(3), -1, -1)]

----------------------------------------------------------------------------
(* Generated names.  f"{x:.1f}" and f"{x:.2f}" keep one and two decimals:  *)
(* the text is identified by the rounded number of tenths / hundredths.    *)
(* (No value of PtBins or NpCuts lies halfway between two roundings.)      *)

Round(v, step) == (v + step \div 2) \div step

\* f"{pt:.1f}"
Fmt1(v) == Round(v, Unit \div 10)
\* f"{bdt_np_min:.2f}"
Fmt2(v) == Round(v, Unit \div 100)

\* f"hist_mass_pt{pt_min:.1f}_{pt_max:.1f}_nocutnp"
HistNameNocut(pt_min, pt_max) ==
    [pt_min |-> Fmt1(pt_min), pt_max |-> Fmt1(pt_max), tag |-> "nocutnp",
     np |-> 0]

\* f"hist_mass_pt{pt_min:.1f}_{pt_max:.1f}_bdtnp{bdt_np_min:.2f}"
HistNameCut(pt_min, pt_max, bdt_np_min) ==
    [pt_min |-> Fmt1(pt_min), pt_max |-> Fmt1(pt_max), tag |-> "bdtnp",
     np |-> Fmt2(bdt_np_min)]

\* f"rawyields_bdtnp{bdt_np_min:0.2f}{suffix}.root"
CutvarFileName(bdt_np_min) == [file |-> "rawyields_bdtnp", np |-> Fmt2(bdt_np_min)]
NocutFileName == [file |-> "rawyields_nocut", np |-> 0]
HistMassFileName == [file |-> "hist_mass", np |-> 0]

----------------------------------------------------------------------------
(* The fitter (flarefly F2MassFitter) as fit() uses it.  What a fit        *)
(* returns is not decided by this program: a fit either converges or not,  *)
(* and its numbers are one of FitSeeds' value sets, in which every         *)
(* quantity has its own value and its own uncertainty, none of them zero.  *)

FitSeeds == 1..MaxSeed

FitOutcomes ==
    {[converged |-> TRUE, seed |-> sd] : sd \in FitSeeds}
        \cup {[converged |-> FALSE, seed |-> 1]}

\* <<value, uncertainty>> of quantity number k in value set sd
Value(sd, k) == <<100 * sd + 10 * k + 1, 100 * sd + 10 * k + 2>>

\* fitter.get_raw_yield(0): the fitted model integral
get_raw_yield(f) == Value(f.seed, 0)
\* fitter.get_signal_parameter(0, par_name)
get_signal_parameter(f, par_name) ==
    CASE par_name = "sigma" -> Value(f.seed, 1)
      [] par_name = "alphal" -> Value(f.seed, 3)
      [] par_name = "alphar" -> Value(f.seed, 4)
      [] par_name = "nl" -> Value(f.seed, 5)
      [] OTHER -> Value(f.seed, 6)
\* fitter.get_mass(0)
get_mass(f) == Value(f.seed, 2)
\* fitter.get_raw_yield_bincounting(0, min=lo, max=hi): the counts summed
\* over [lo, hi], a number of its own for every window
get_raw_yield_bincounting(f, lo, hi) ==
    <<Unit * f.seed + lo + hi, Unit * f.seed + lo + hi + 1>>

\* A dict is the set of its <<key, value>> items.
Keys(d) == {it[1] : it \in d}
DictSet(d, k, v) == {it \in d : it[1] # k} \cup {<<k, v>>}

\* perform_fit: the call as made (its arguments) and the fitter it returns.
\* Every item of signal_pars_tofix is set with fix=True; the dict is only read.
perform_fit(histo_name, sgn_func, bkg_func, mass_min, mass_max, init_mass, part_name, signal_pars_tofix, outcome) ==
    [histo_name |-> histo_name, sgn_func |-> sgn_func, bkg_func |-> bkg_func,
     mass_min |-> mass_min, mass_max |-> mass_max, init_mass |-> init_mass,
     part_name |-> part_name, signal_pars_tofix |-> signal_pars_tofix,
     fixed |-> IF Cardinality(signal_pars_tofix) > 0 THEN signal_pars_tofix
               ELSE {},
     converged |-> outcome.converged, seed |-> outcome.seed]

\* the expected signal position, from the PDG masses
InitMass(hadron) == IF hadron = "dstar" THEN "m413-m421" ELSE "m411"

\* A TH1F of n bins: <<content, error>> of bins 1..n, all zero when created.
TH1F(n) == Repeat(<<0, 0>>, n)
\* SetBinContent(bin, ve[0]); SetBinError(bin, ve[1])
SetBin(h, bin, ve) == IF bin \in 1..Len(h) THEN [h EXCEPT ![bin] = ve] ELSE h

HistNames == {"hist_rawyield", "hist_sigma", "hist_mean", "hist_alphal",
              "hist_alphar", "hist_nl", "hist_nr"}
TailPars == {"alphal", "alphar", "nl", "nr"}

----------------------------------------------------------------------------
(* fit(): the pieces of the bin loop.                                      *)

\* lines 224-225: the bin-counting window of a species, in thousandths
BinCountMinDstar == 140
BinCountMaxDstar == 160
BinCountMinDplus == 1700
BinCountMaxDplus == 2000
bin_counting_min(hadron) ==
    IF hadron = "dstar" THEN BinCountMinDstar ELSE BinCountMinDplus
bin_counting_max(hadron) ==
    IF hadron = "dstar" THEN BinCountMaxDstar ELSE BinCountMaxDplus

\* the yield of a thresholded fit taken from the fitted model instead
CutvarRawYieldFromModel(f, hadron) == get_raw_yield(f)

\* lines 224-227: the yield of a converged thresholded fit
CutvarRawYield(f, hadron) ==
    get_raw_yield_bincounting(f, bin_counting_min(hadron),
                              bin_counting_max(hadron))

\* the dict of the bin before kept when a bin starts
KeepParsToFix(old) == old

\* line 159: pars_tofix = {} when a bin starts
NewParsToFix(old) == {}

\* the items added with the mean fixed whatever the flag says
FillParsToFixMeanAlways(d, f, fix_mean, sgn_func) ==
    IF ~f.converged THEN d
    ELSE LET d1 == DictSet(d, "sigma", get_signal_parameter(f, "sigma")[1])
             d2 == DictSet(d1, "mean", get_mass(f)[1])
         IN  IF sgn_func = "doublecb"
             THEN LET d3 == DictSet(d2, "alphal", get_signal_parameter(f, "alphal")[1])
                      d4 == DictSet(d3, "alphar", get_signal_parameter(f, "alphar")[1])
                      d5 == DictSet(d4, "nl", get_signal_parameter(f, "nl")[1])
                  IN  DictSet(d5, "nr", get_signal_parameter(f, "nr")[1])
             ELSE d2

\* lines 160-166, 173-181: the items the unthresholded fit f adds to the dict
FillParsToFix(d, f, fix_mean, sgn_func) ==
    IF ~f.converged THEN d
    ELSE LET d1 == DictSet(d, "sigma", get_signal_parameter(f, "sigma")[1])
             d2 == IF fix_mean THEN DictSet(d1, "mean", get_mass(f)[1]) ELSE d1
         IN  IF sgn_func = "doublecb"
             THEN LET d3 == DictSet(d2, "alphal", get_signal_parameter(f, "alphal")[1])
                      d4 == DictSet(d3, "alphar", get_signal_parameter(f, "alphar")[1])
                      d5 == DictSet(d4, "nl", get_signal_parameter(f, "nl")[1])
                  IN  DictSet(d5, "nr", get_signal_parameter(f, "nr")[1])
             ELSE d2

\* lines 160, 167-172, 182-189: the reference histograms after fit f of a bin
FillNocut(h, bin, f, sgn_func) ==
    IF ~f.converged THEN h
    ELSE [nm \in HistNames |->
            CASE nm = "hist_rawyield" -> SetBin(h[nm], bin, get_raw_yield(f))
              [] nm = "hist_sigma" ->
                    SetBin(h[nm], bin, get_signal_parameter(f, "sigma"))
              [] nm = "hist_mean" -> SetBin(h[nm], bin, get_mass(f))
              [] nm = "hist_alphal" /\ sgn_func = "doublecb" ->
                    SetBin(h[nm], bin, get_signal_parameter(f, "alphal"))
              [] nm = "hist_alphar" /\ sgn_func = "doublecb" ->
                    SetBin(h[nm], bin, get_signal_parameter(f, "alphar"))
              [] nm = "hist_nl" /\ sgn_func = "doublecb" ->
                    SetBin(h[nm], bin, get_signal_parameter(f, "nl"))
              [] nm = "hist_nr" /\ sgn_func = "doublecb" ->
                    SetBin(h[nm], bin, get_signal_parameter(f, "nr"))
              [] OTHER -> h[nm]]

\* the per-threshold histogram filled whether or not the fit converged
FillCutvarAlways(h, bin, f, hadron) == SetBin(h, bin, CutvarRawYield(f, hadron))

\* lines 223-229: a threshold's yield histogram after fit f of a bin
FillCutvar(h, bin, f, hadron) ==
    IF f.converged THEN SetBin(h, bin, CutvarRawYield(f, hadron)) ELSE h

----------------------------------------------------------------------------
(* The program.  pc is the place the run has reached: "main" (line 323),   *)
(* the loops of project() and fit(), "done" (the script ends), "exit"      *)
(* (sys.exit()), "error" (an IndexError ends the run).                     *)

projVars == <<axis, outfile>>
fitVars == <<fits, fitter, pars_tofix, hist_nocut, hist_rawyield_cutvar,
             written, mass>>

\* lines 279-281: bdt_bkg_cuts, a scalar repeated once per pt_mins entry
bdt_bkg_cuts(c) ==
    IF c.bkg_is_list THEN c.bkg_list ELSE Repeat(c.bkg_scalar, Len(c.pt_mins))

\* lines 323-324
MainProject ==
    /\ pc = "main"
    /\ pc' = IF args.project THEN "project_start" ELSE "main_fit"
    /\ UNCHANGED <<cfg, args, ipt, icut, created, projVars, fitVars>>

\* lines 261-285: project() up to its bin loop
ProjectSetup ==
    /\ pc = "project_start"
    /\ IF cfg.hadron \notin Hadrons
       THEN /\ pc' = "exit"
            /\ UNCHANGED <<ipt, icut, created, projVars>>
       ELSE /\ created' = created \cup {HistMassFileName}
            /\ outfile' = <<>>
            /\ ipt' = 0
            /\ pc' = "project_bin"
            /\ UNCHANGED <<icut, axis>>
    /\ UNCHANGED <<cfg, args, fitVars>>

\* lines 286-297: one pT bin, its "no non-prompt cut" projection
ProjectBin ==
    /\ pc = "project_bin"
    /\ ipt < NZip(cfg)
    /\ IF ipt + 1 > Len(bdt_bkg_cuts(cfg))
       THEN /\ pc' = "error"
            /\ UNCHANGED <<ipt, icut, projVars>>
       ELSE LET pt_min == cfg.pt_mins[ipt + 1]
                pt_max == cfg.pt_maxs[ipt + 1]
                ax == SetPtRange(SetBkgRange(axis, bdt_bkg_cuts(cfg)[ipt + 1]),
                                 pt_min, pt_max)
            IN  /\ axis' = ax
                /\ outfile' = Append(outfile,
                       [name |-> HistNameNocut(pt_min, pt_max),
                        hist |-> Projection(ax), ipt |-> ipt,
                        pt_min |-> pt_min, pt_max |-> pt_max,
                        icut |-> -1, bdt_np_min |-> 0])
                /\ icut' = 0
                /\ IF Len(cfg.nonprompt) = 0
                   THEN ipt' = ipt + 1 /\ pc' = "project_bin"
                   ELSE ipt' = ipt /\ pc' = "project_cut"
    /\ UNCHANGED <<cfg, args, created, fitVars>>

\* lines 298-305: one non-prompt threshold of the bin
ProjectCut ==
    /\ pc = "project_cut"
    /\ icut < Len(cfg.nonprompt)
    /\ LET pt_min == cfg.pt_mins[ipt + 1]
           pt_max == cfg.pt_maxs[ipt + 1]
           bdt_np_min == cfg.nonprompt[icut + 1]
           ax == SetNpRange(axis, bdt_np_min)
       IN  /\ outfile' = Append(outfile,
                  [name |-> HistNameCut(pt_min, pt_max, bdt_np_min),
                   hist |-> Projection(ax), ipt |-> ipt,
                   pt_min |-> pt_min, pt_max |-> pt_max,
                   icut |-> icut, bdt_np_min |-> bdt_np_min])
           /\ axis' = ResetNpRange(ax)
    /\ IF icut + 1 = Len(cfg.nonprompt)
       THEN icut' = 0 /\ ipt' = ipt + 1 /\ pc' = "project_bin"
       ELSE icut' = icut + 1 /\ ipt' = ipt /\ pc' = "project_cut"
    /\ UNCHANGED <<cfg, args, created, fitVars>>

\* line 306, and back in main
ProjectClose ==
    /\ pc = "project_bin"
    /\ ipt >= NZip(cfg)
    /\ pc' = "main_fit"
    /\ UNCHANGED <<cfg, args, ipt, icut, created, projVars, fitVars>>

\* lines 326-327
MainFit ==
    /\ pc = "main_fit"
    /\ pc' = IF args.fit THEN "fit_start" ELSE "done"
    /\ UNCHANGED <<cfg, args, ipt, icut, created, projVars, fitVars>>

\* lines 81-141: fit() up to its bin loop
FitSetup ==
    /\ pc = "fit_start"
    /\ IF cfg.hadron \notin Hadrons \/ ~check_config_consistency(cfg)
       THEN /\ pc' = "exit"
            /\ UNCHANGED <<ipt, icut, created, fitVars>>
       ELSE IF Len(cfg.pt_maxs) = 0
       THEN \* line 96: pt_maxs[-1] of an empty list
            /\ pc' = "error"
            /\ UNCHANGED <<ipt, icut, created, fitVars>>
       ELSE /\ created' = created \cup {NocutFileName}
            /\ hist_nocut' = [nm \in HistNames |-> TH1F(Len(cfg.pt_mins))]
            /\ hist_rawyield_cutvar' =
                   Repeat(TH1F(Len(cfg.pt_mins)), Len(cfg.nonprompt))
            /\ fitter' = <<>>
            /\ ipt' = 0
            /\ pc' = "fit_bin"
            /\ UNCHANGED <<icut, fits, pars_tofix, written, mass>>
    /\ UNCHANGED <<cfg, args, projVars>>

\* lines 142-209: the unthresholded fit of one pT bin
FitNocut ==
    /\ pc = "fit_bin"
    /\ ipt < NZip(cfg)
    /\ IF \/ ipt + 1 > Len(cfg.sgn_funcs) \/ ipt + 1 > Len(cfg.bkg_funcs)
          \/ ipt + 1 > Len(cfg.mass_mins) \/ ipt + 1 > Len(cfg.mass_maxs)
       THEN \* an IndexError while the arguments of perform_fit are evaluated
            /\ pc' = "error"
            /\ mass' = InitMass(cfg.hadron)
            /\ UNCHANGED <<ipt, icut, fits, fitter, pars_tofix, hist_nocut,
                           written>>
       ELSE \E outcome \in FitOutcomes :
            LET pt_min == cfg.pt_mins[ipt + 1]
                pt_max == cfg.pt_maxs[ipt + 1]
                f == perform_fit(HistNameNocut(pt_min, pt_max),
                                 cfg.sgn_funcs[ipt + 1], cfg.bkg_funcs[ipt + 1],
                                 cfg.mass_mins[ipt + 1], cfg.mass_maxs[ipt + 1],
                                 InitMass(cfg.hadron), cfg.hadron, {}, outcome)
            IN  /\ mass' = InitMass(cfg.hadron)
                /\ fits' = Append(fits, [ipt |-> ipt, icut |-> -1, fit |-> f])
                /\ fitter' = Append(fitter, f)
                /\ pars_tofix' = FillParsToFix(NewParsToFix(pars_tofix), f,
                                     args.fix_mean, cfg.sgn_funcs[ipt + 1])
                /\ hist_nocut' = FillNocut(hist_nocut, ipt + 1, f,
                                           cfg.sgn_funcs[ipt + 1])
                /\ written' = IF f.converged
                              THEN Append(written,
                                     [file |-> NocutFileName, mode |-> "update",
                                      obj |-> "fit_dump", hist |-> <<>>])
                              ELSE written
                /\ icut' = 0
                /\ IF Len(cfg.nonprompt) = 0
                   THEN ipt' = ipt + 1 /\ pc' = "fit_bin"
                   ELSE ipt' = ipt /\ pc' = "fit_cut"
    /\ UNCHANGED <<cfg, args, created, projVars, hist_rawyield_cutvar>>

\* lines 210-234: the fit of the bin under one non-prompt threshold
FitCutvar ==
    /\ pc = "fit_cut"
    /\ icut < Len(cfg.nonprompt)
    /\ \E outcome \in FitOutcomes :
       LET pt_min == cfg.pt_mins[ipt + 1]
           pt_max == cfg.pt_maxs[ipt + 1]
           bdt_np_min == cfg.nonprompt[icut + 1]
           f == perform_fit(HistNameCut(pt_min, pt_max, bdt_np_min),
                            cfg.sgn_funcs[ipt + 1], cfg.bkg_funcs[ipt + 1],
                            cfg.mass_mins[ipt + 1], cfg.mass_maxs[ipt + 1],
                            mass, cfg.hadron, pars_tofix, outcome)
       IN  /\ fits' = Append(fits, [ipt |-> ipt, icut |-> icut, fit |-> f])
           /\ hist_rawyield_cutvar' =
                  [hist_rawyield_cutvar EXCEPT
                      ![icut + 1] = FillCutvar(@, ipt + 1, f, cfg.hadron)]
    /\ IF icut + 1 = Len(cfg.nonprompt)
       THEN icut' = 0 /\ ipt' = ipt + 1 /\ pc' = "fit_bin"
       ELSE icut' = icut + 1 /\ ipt' = ipt /\ pc' = "fit_cut"
    /\ UNCHANGED <<cfg, args, created, projVars, fitter, pars_tofix, hist_nocut,
                   written, mass>>

\* the Write() calls of lines 237-242, one file per threshold
CutvarWrites(i) ==
    [file |-> CutvarFileName(cfg.nonprompt[i]), mode |-> "recreate",
     obj |-> "hist_rawyield", hist |-> hist_rawyield_cutvar[i]]

\* the Write() calls of lines 244-252, into the unthresholded file
NocutWrites ==
    LET w(nm) == [file |-> NocutFileName, mode |-> "update", obj |-> nm,
                  hist |-> hist_nocut[nm]]
    IN  <<w("hist_rawyield"), w("hist_sigma"), w("hist_mean"), w("hist_alphal"),
          w("hist_alphar"), w("hist_nl"), w("hist_nr")>>

\* the output files written inside the bin loop, after its first bin
FitWriteInLoop ==
    /\ pc = "fit_bin"
    /\ ipt >= 1
    /\ written' = written \o [i \in 1..Len(cfg.nonprompt) |-> CutvarWrites(i)]
                          \o NocutWrites
    /\ created' = created \cup
                     {CutvarFileName(cfg.nonprompt[i]) : i \in 1..Len(cfg.nonprompt)}
    /\ pc' = IF ipt >= NZip(cfg) THEN "done" ELSE "fit_written"
    /\ UNCHANGED <<cfg, args, ipt, icut, projVars, fits, fitter, pars_tofix,
                   hist_nocut, hist_rawyield_cutvar, mass>>

\* lines 237-252: after the bin loop, the output files
FitWrite ==
    /\ pc = "fit_bin"
    /\ ipt >= NZip(cfg)
    /\ written' = written \o [i \in 1..Len(cfg.nonprompt) |-> CutvarWrites(i)]
                          \o NocutWrites
    /\ created' = created \cup
                     {CutvarFileName(cfg.nonprompt[i]) : i \in 1..Len(cfg.nonprompt)}
    /\ pc' = "done"
    /\ UNCHANGED <<cfg, args, ipt, icut, projVars, fits, fitter, pars_tofix,
                   hist_nocut, hist_rawyield_cutvar, mass>>

Next ==
    \/ MainProject \/ ProjectSetup \/ ProjectBin \/ ProjectCut \/ ProjectClose
    \/ MainFit \/ FitSetup \/ FitNocut \/ FitCutvar \/ FitWrite

----------------------------------------------------------------------------
(* Runs: the state when the script starts, for three families of inputs.   *)

\* nothing projected, fitted or written yet; hData as read from the file
Start ==
    /\ pc = "main"
    /\ ipt = 0
    /\ icut = 0
    /\ axis = [a \in 1..3 |-> FreshAxis]
    /\ outfile = <<>>
    /\ created = {}
    /\ fits = <<>>
    /\ fitter = <<>>
    /\ pars_tofix = {}
    /\ hist_nocut = [nm \in HistNames |-> <<>>]
    /\ hist_rawyield_cutvar = <<>>
    /\ written = <<>>
    /\ mass = "unset"

\* n adjacent 1 GeV/c bins, and k thresholds 0.20 apart
BinLow(n) == [i \in 1..n |-> Unit * i]
BinHigh(n) == [i \in 1..n |-> Unit * (i + 1)]
Thresholds(k) == [i \in 1..k |-> 200 * i]
MassMins(n) == [i \in 1..n |-> MassMinOf(i)]
MassMaxs(n) == [i \in 1..n |-> MassMaxOf(i)]
BkgFuncs(n) == [i \in 1..n |-> BkgFuncOf(i)]
SgnFuncsOf(hadron, n) ==
    [i \in 1..n |-> IF hadron = "dplus" THEN "gaussian" ELSE "doublecb"]

\* list lengths one off the bin count n at most
LensNear(n) == {len \in 0..(MaxBins + 1) : n - 1 <= len /\ len <= n + 1}

\* Any shape of configuration and any stage flags: every per-bin list may be
\* one entry short or long, the species may be unsupported.
Init ==
    /\ Start
    /\ \E hadron \in AnyHadron, n \in 0..MaxBins, m \in 0..MaxBins,
          k \in 0..MaxCuts :
       \E l1 \in LensNear(n), l2 \in LensNear(n), l3 \in LensNear(n),
          l4 \in LensNear(n), bl \in LensNear(n), is_list \in BOOLEAN :
          /\ n * (1 + k) <= MaxFits
          /\ (~is_list => bl = n)
          /\ cfg = Config(hadron, BinLow(n), BinHigh(m), MassMins(l1),
                          MassMaxs(l2), SgnFuncsOf(hadron, l3), BkgFuncs(l4),
                          is_list, 900, Repeat(900, IF is_list THEN bl ELSE 0),
                          Thresholds(k))
    /\ args \in [project : BOOLEAN, fit : BOOLEAN, fix_mean : BOOLEAN]

Spec == Init /\ [][Next]_vars

\* --fit alone on consistent configurations: every signal model per bin, with
\* and without --fix_mean, up to MaxFits fits in the run.
InitFit ==
    /\ Start
    /\ \E hadron \in Hadrons, n \in 1..MaxBins, k \in 0..MaxCuts :
       \E sgn_funcs \in SeqsOfLen(SgnFuncs, n) :
          /\ n * (1 + k) <= MaxFits
          /\ cfg = Config(hadron, BinLow(n), BinHigh(n), MassMins(n),
                          MassMaxs(n), sgn_funcs, BkgFuncs(n),
                          FALSE, 900, <<>>, Thresholds(k))
    /\ args \in [project : {FALSE}, fit : {TRUE}, fix_mean : BOOLEAN]

NextFit == MainProject \/ MainFit \/ FitSetup \/ FitNocut \/ FitCutvar \/ FitWrite

SpecFit == InitFit /\ [][NextFit]_vars

\* --project alone on consistent configurations: any bins of PtBins, any
\* thresholds of NpCuts, a scalar or a per-bin background cut.
InitProject ==
    /\ Start
    /\ \E n \in 1..MaxBins, k \in 0..MaxCuts :
       \E bins \in SeqsOfLen(PtBins, n), nonprompt \in SeqsOfLen(NpCuts, k),
          bkg_list \in SeqsOfLen(BkgCuts, n), is_list \in BOOLEAN :
          /\ (~is_list => \A i \in 1..n : bkg_list[i] = 500)
          /\ cfg = Config("dstar", [i \in 1..n |-> bins[i][1]],
                          [i \in 1..n |-> bins[i][2]], MassMins(n), MassMaxs(n),
                          SgnFuncsOf("dstar", n), BkgFuncs(n),
                          is_list, 500, IF is_list THEN bkg_list ELSE <<>>,
                          nonprompt)
    /\ args \in [project : {TRUE}, fit : {FALSE}, fix_mean : {FALSE}]

NextProject ==
    MainProject \/ ProjectSetup \/ ProjectBin \/ ProjectCut \/ ProjectClose
        \/ MainFit

SpecProject == InitProject /\ [][NextProject]_vars

----------------------------------------------------------------------------
(* Properties.                                                             *)

Terminated == pc \in {"done", "exit", "error"}

\* the thresholded perform_fit calls made so far, and the unthresholded ones
CutvarFits == {j \in 1..Len(fits) : fits[j].icut >= 0}
NocutFits == {j \in 1..Len(fits) : fits[j].icut = -1}

\* the fitter of the unthresholded fit of the bin that call j belongs to
RefFit(j) == fitter[fits[j].ipt + 1]

\* C1: for a bin whose unthresholded fit converged, the dict passed to each
\* thresholded fit of the bin has the key sigma, the key mean exactly when
\* --fix_mean is set, the keys alphal, alphar, nl, nr exactly when the bin's
\* sgn_funcs entry is "doublecb", and no other key.
C1_ParsToFixKeys ==
    \A j \in CutvarFits :
        RefFit(j).converged =>
            /\ Keys(fits[j].fit.signal_pars_tofix) =
                  {"sigma"}
                     \cup (IF args.fix_mean THEN {"mean"} ELSE {})
                     \cup (IF cfg.sgn_funcs[fits[j].ipt + 1] = "doublecb"
                           THEN {"alphal", "alphar", "nl", "nr"} ELSE {})
            /\ fits[j].fit.fixed = fits[j].fit.signal_pars_tofix

\* a thresholded fit after a converged unthresholded fit of a "gaussian" bin
\* under --fix_mean, and one of a "doublecb" bin, in the same run
C1_Witness ==
    /\ args.fix_mean
    /\ \E j \in CutvarFits :
          RefFit(j).converged /\ cfg.sgn_funcs[fits[j].ipt + 1] = "gaussian"
    /\ \E j \in CutvarFits :
          RefFit(j).converged /\ cfg.sgn_funcs[fits[j].ipt + 1] = "doublecb"

\* C2 (as claimed): when pt_mins and pt_maxs differ in length, no projection
\* is made and written, no fit is called and no output file is created,
\* whatever the --project and --fit flags.
C2_MismatchAbortsBeforeWork ==
    Len(cfg.pt_mins) # Len(cfg.pt_maxs) =>
        outfile = <<>> /\ fits = <<>> /\ created = {}

\* C3 (as claimed): once check_config_consistency has accepted the
\* configuration (fit() is in its bin loop), every per-bin list has
\* len(pt_mins) entries, and the loop never ends in an IndexError.
C3_AcceptedConfigIsConsistent ==
    (pc \in {"fit_bin", "fit_cut"} \/ (pc = "error" /\ fitter # <<>>)) =>
        /\ Len(cfg.pt_maxs) = Len(cfg.pt_mins)
        /\ Len(cfg.mass_mins) = Len(cfg.pt_mins)
        /\ Len(cfg.mass_maxs) = Len(cfg.pt_mins)
        /\ Len(cfg.sgn_funcs) = Len(cfg.pt_mins)
        /\ Len(cfg.bkg_funcs) = Len(cfg.pt_mins)
        /\ (cfg.bkg_is_list => Len(cfg.bkg_list) = Len(cfg.pt_mins))
        /\ pc # "error"

\* the call of the thresholded fit of bin b (from 0) and threshold c (from 0)
CutvarFitOf(b, c) == CHOOSE j \in CutvarFits : fits[j].ipt = b /\ fits[j].icut = c

\* the yield histograms in the output files: the one of the unthresholded
\* file, and the one written for threshold number c (from 1)
WrittenNocutYield ==
    {w \in Range(written) : w.file = NocutFileName /\ w.obj = "hist_rawyield"}
IsCutvarYield(w) == w.file.file = "rawyields_bdtnp" /\ w.obj = "hist_rawyield"
WrittenCutvarYield == SelectSeq(written, IsCutvarYield)

\* C4: when fit() has finished, the unthresholded yield histogram and each
\* per-threshold yield histogram, in memory and as written, have len(pt_mins)
\* bins; bin ipt+1 holds the yield and uncertainty extracted from that bin's
\* (and threshold's) fit if it converged, and <<0, 0>> if it did not.
C4_YieldHistograms ==
    (pc = "done" /\ args.fit) =>
        LET n == Len(cfg.pt_mins)
            k == Len(cfg.nonprompt)
        IN  /\ Len(hist_nocut["hist_rawyield"]) = n
            /\ \A b \in 1..n :
                  hist_nocut["hist_rawyield"][b] =
                      IF fitter[b].converged THEN Value(fitter[b].seed, 0)
                      ELSE <<0, 0>>
            /\ Len(hist_rawyield_cutvar) = k
            /\ \A c \in 1..k :
                  /\ Len(hist_rawyield_cutvar[c]) = n
                  /\ \A b \in 1..n :
                        LET f == fits[CutvarFitOf(b - 1, c - 1)].fit
                        IN  hist_rawyield_cutvar[c][b] =
                               IF f.converged
                               THEN get_raw_yield_bincounting(f,
                                        bin_counting_min(cfg.hadron),
                                        bin_counting_max(cfg.hadron))
                               ELSE <<0, 0>>
                  /\ WrittenCutvarYield[c].file = CutvarFileName(cfg.nonprompt[c])
                  /\ WrittenCutvarYield[c].hist = hist_rawyield_cutvar[c]
            /\ Len(WrittenCutvarYield) = k
            /\ Cardinality(WrittenNocutYield) = 1
            /\ \A w \in WrittenNocutYield : w.hist = hist_nocut["hist_rawyield"]

\* fit() finished on two bins and a threshold, with a converged and a failed
\* fit among the unthresholded fits and among the thresholded ones
C4_Witness ==
    /\ pc = "done" /\ args.fit
    /\ Len(cfg.pt_mins) >= 2 /\ Len(cfg.nonprompt) >= 1
    /\ \E i, j \in NocutFits : fits[i].fit.converged /\ ~fits[j].fit.converged
    /\ \E i, j \in CutvarFits : fits[i].fit.converged /\ ~fits[j].fit.converged

FreshAxes == [a \in 1..3 |-> FreshAxis]

\* the axis ranges of a histogram's bin set on hData as read from the file
BinAxes(e) ==
    SetPtRange(SetBkgRange(FreshAxes, bdt_bkg_cuts(cfg)[e.ipt + 1]),
               e.pt_min, e.pt_max)

\* C5: every histogram project() writes for a bin and a threshold is the one
\* projected for that bin at that threshold alone, on hData as read: it sums
\* the non-prompt bins from the threshold's bin up to the overflow, whatever
\* thresholds came before; and every "nocutnp" histogram sums all non-prompt
\* bins, whatever the last threshold of the bin before was.
C5_ThresholdsDoNotCompound ==
    \A i \in 1..Len(outfile) :
        LET e == outfile[i]
        IN  IF e.icut = -1
            THEN /\ e.hist = Projection(BinAxes(e))
                 /\ e.hist.np = 0..(NBins(3) + 1)
            ELSE /\ e.hist = Projection(SetNpRange(BinAxes(e), e.bdt_np_min))
                 /\ e.hist.np = {b \in 0..(NBins(3) + 1) :
                                    b >= FindBin(3, e.bdt_np_min * 1001)}

\* a bin projected at 0.996 and then at 0.20, which selects more, and the
\* "nocutnp" projection of the bin after it
C5_Witness ==
    \E i \in 1..Len(outfile) :
        /\ i + 2 <= Len(outfile)
        /\ outfile[i].icut = 0 /\ outfile[i].bdt_np_min = 996
        /\ outfile[i + 1].icut = 1 /\ outfile[i + 1].bdt_np_min = 200
        /\ outfile[i + 1].hist.np # outfile[i].hist.np
        /\ outfile[i + 2].icut = -1 /\ outfile[i + 2].ipt = outfile[i].ipt + 1

\* C6: the yield in a threshold's histogram for a converged thresholded fit
\* is that fit's bin count over [0.14, 0.16] for dstar and over [1.70, 2.00]
\* for dplus, and is not the fitted model integral (get_raw_yield), whatever
\* signal model the bin has and whatever parameters were fixed.
C6_BinCountingYield ==
    \A j \in CutvarFits :
        LET f == fits[j].fit
            recorded == hist_rawyield_cutvar[fits[j].icut + 1][fits[j].ipt + 1]
        IN  f.converged =>
               /\ recorded = IF cfg.hadron = "dstar"
                             THEN get_raw_yield_bincounting(f, 140, 160)
                             ELSE get_raw_yield_bincounting(f, 1700, 2000)
               /\ recorded # get_raw_yield(f)

\* converged thresholded fits of a dplus "doublecb" bin with fixed
\* parameters and of a bin with none fixed
C6_Witness ==
    /\ cfg.hadron = "dplus"
    /\ \E j \in CutvarFits :
          /\ fits[j].fit.converged /\ fits[j].fit.sgn_func = "doublecb"
          /\ fits[j].fit.fixed # {}
    /\ \E j \in CutvarFits : fits[j].fit.converged /\ fits[j].fit.fixed = {}

\* C7 (as claimed): for every configuration that the validation accepts, a
\* finished run of fit() has made one unthresholded fit per bin and one
\* thresholded fit per bin and threshold, whichever fits failed to converge.
C7_EveryFitAttempted ==
    (/\ Terminated /\ args.fit /\ pc # "exit"
     /\ cfg.hadron \in Hadrons /\ check_config_consistency(cfg)) =>
        /\ \A b \in 0..(Len(cfg.pt_mins) - 1) :
              /\ Cardinality({j \in NocutFits : fits[j].ipt = b}) = 1
              /\ \A c \in 0..(Len(cfg.nonprompt) - 1) :
                    Cardinality({j \in CutvarFits :
                                    fits[j].ipt = b /\ fits[j].icut = c}) = 1

\* C7, the part that holds: a bin whose unthresholded fit did not converge has
\* an empty dict, nothing filled at its position in the seven reference
\* histograms, and its thresholded fits called with no parameter fixed.
C7_NonConvergenceIsLocal ==
    \A i \in NocutFits :
        ~fits[i].fit.converged =>
            /\ \A nm \in HistNames : hist_nocut[nm][fits[i].ipt + 1] = <<0, 0>>
            /\ \A j \in CutvarFits :
                  fits[j].ipt = fits[i].ipt => fits[j].fit.fixed = {}
            /\ (pc = "fit_cut" /\ ipt = fits[i].ipt) => pars_tofix = {}

\* C8 (as claimed): two histograms written by project() for different pairs
\* (different bin edges, or different thresholds, or one with and one without
\* threshold) never have the same generated name.
C8_DistinctPairsDistinctNames ==
    \A i, j \in 1..Len(outfile) :
        LET Pair(e) == <<e.pt_min, e.pt_max, e.icut = -1, e.bdt_np_min>>
        IN  Pair(outfile[i]) # Pair(outfile[j]) =>
               outfile[i].name # outfile[j].name

\* C9: the perform_fit calls are made bin after bin in list order; in a bin
\* the unthresholded fit comes first and the dict it leaves is the one every
\* thresholded fit of the bin gets; the thresholded fits follow in the order
\* of the threshold list; and the yield and reference histograms are written
\* only when the last fit of the last bin has been made.
C9_SequentialOrder ==
    LET n == Len(cfg.pt_mins)
        k == Len(cfg.nonprompt)
    IN  /\ \A j \in 1..Len(fits) :
              /\ fits[j].ipt = (j - 1) \div (1 + k)
              /\ fits[j].icut = ((j - 1) % (1 + k)) - 1
              /\ fits[j].icut >= 0 =>
                    /\ fits[j].fit.histo_name =
                          HistNameCut(cfg.pt_mins[fits[j].ipt + 1],
                                      cfg.pt_maxs[fits[j].ipt + 1],
                                      cfg.nonprompt[fits[j].icut + 1])
              /\ fits[j].icut >= 1 =>
                    fits[j].fit.signal_pars_tofix =
                        fits[j - 1].fit.signal_pars_tofix
        /\ Len(fitter) = Cardinality(NocutFits)
        /\ (\E w \in Range(written) : w.obj \in HistNames) =>
              pc = "done" /\ Len(fits) = n * (1 + k)
        /\ (pc = "done" /\ args.fit) =>
              /\ Len(fits) = n * (1 + k)
              /\ Len(written) = Cardinality({j \in NocutFits : fits[j].fit.converged})
                                   + k + Cardinality(HistNames)

\* fit() finished on two bins and two thresholds
C9_Witness ==
    /\ pc = "done"
    /\ Len(fits) = 6 /\ Len(cfg.pt_mins) = 2
    /\ \E w \in Range(written) : w.obj = "hist_sigma"

\* the value the unthresholded fit f gave parameter par
ExtractedValue(f, par) ==
    IF par = "mean" THEN Value(f.seed, 2)[1]
    ELSE IF par = "sigma" THEN Value(f.seed, 1)[1]
    ELSE IF par = "alphal" THEN Value(f.seed, 3)[1]
    ELSE IF par = "alphar" THEN Value(f.seed, 4)[1]
    ELSE IF par = "nl" THEN Value(f.seed, 5)[1]
    ELSE Value(f.seed, 6)[1]

\* C10: every parameter held fixed in a thresholded fit of a bin has the value
\* the bin's own unthresholded fit gave it in this run; a bin whose
\* unthresholded fit did not converge passes an empty dict, whatever earlier
\* bins gave; the dict is the same for all thresholds of the bin, and every
\* unthresholded fit is called with the empty default.
C10_NoLeakBetweenBins ==
    /\ \A j \in CutvarFits :
          /\ \A it \in fits[j].fit.signal_pars_tofix :
                RefFit(j).converged /\ it[2] = ExtractedValue(RefFit(j), it[1])
          /\ \A it \in fits[j].fit.fixed :
                RefFit(j).converged /\ it[2] = ExtractedValue(RefFit(j), it[1])
          /\ \A i \in CutvarFits :
                fits[i].ipt = fits[j].ipt =>
                    fits[i].fit.signal_pars_tofix = fits[j].fit.signal_pars_tofix
    /\ \A j \in NocutFits :
          fits[j].fit.signal_pars_tofix = {} /\ fits[j].fit.fixed = {}
    /\ pc = "fit_cut" =>
          \A it \in pars_tofix :
              fitter[ipt + 1].converged
                 /\ it[2] = ExtractedValue(fitter[ipt + 1], it[1])

\* a bin that converged, then a bin that did not and whose thresholded fit got
\* the empty dict, then a bin (or the same run's later fit) with other values
C10_Witness ==
    \E i, j \in CutvarFits :
        /\ fits[i].ipt = 0 /\ fits[j].ipt = 1
        /\ fits[i].fit.signal_pars_tofix # {}
        /\ ~RefFit(j).converged
        /\ fits[j].fit.signal_pars_tofix = {}

============================================================================
